---------------------------- MODULE Spec2Model ----------------------------
(***************************************************************************)
(* Model of the pipeline orchestrator of lib/langgraph-config.js:          *)
(* AgentCache, PerformanceMonitor, formatErrorMessage, ErrorRecovery,      *)
(* ParallelExecutionManager, the five stage agents and the workflow entry  *)
(* points executePatentWorkflow / executeParallelWorkflow.                 *)
(*                                                                         *)
(* Strings are modelled by what the code asks of them.  An error message   *)
(* is the set of the markers ("quota", "429", ...) it contains, because    *)
(* the code only ever tests messages with String.includes on these         *)
(* markers.  An abstract is the sequence of its bytes.                     *)
(***************************************************************************)
EXTENDS Integers, Sequences, FiniteSets, TLC

VARIABLES
  \* ---- process-wide singletons (langgraph-config.js:438-441)
  cache,        \* AgentCache.cache: entries in insertion order
  metrics,      \* PerformanceMonitor.metrics
  running,      \* ParallelExecutionManager.running
  queue,        \* ParallelExecutionManager.queue: resolvers of suspended callers
  now,          \* Date.now()
  \* ---- one run of executePatentWorkflow
  mode,         \* the mode argument
  pc,           \* position of the run
  st,           \* the running state handed from stage to stage
  pending,      \* parallel policy: stages invoked by executeParallel, not yet returned
  presults,     \* parallel policy: executeParallel's results object
  timers,       \* timer handle of each stage invocation in progress
  result,       \* what executePatentWorkflow returned
  calls,        \* history: every stage invocation of the run, with its input state
  returns,      \* history: every state a stage returned, in order
  faults,       \* the errors the provider calls of this behaviour may throw
  before,       \* history: the abstract argument of the run, and the metrics and
                \* the last stored workflow entry when the run was called
  stored,       \* history: the last final state a run put under the workflow key
  storeLog,     \* history of the direct callers of the AgentCache: their last
                \* set, get and insert of a new key
  runs,         \* calls of executePatentWorkflow that overlap in time: the
                \* position, state, timer, stage count and result of each
  \* ---- callers of the shared ParallelExecutionManager
  cpc,          \* position of each caller
  mq,           \* the microtask queue: continuations ready to run, in order
  waitLog,      \* history: callers in the order they were suspended
  admitLog,     \* history: suspended callers in the order they were admitted
  wakeLog,      \* history: per release, queue length before and resolvers called
  outcome,      \* how each caller's stage function settled
  allSettled,   \* executeParallel's Promise.all: "none" (not called), "pending", "resolved", "rejected"
  \* ---- one call of ErrorRecovery.executeWithRetry
  rpc,          \* position of the call
  attempt,      \* the loop variable
  rstate,       \* the state variable of the call
  lastError,    \* the lastError variable
  rresult,      \* what the call returned or raised
  rcalls,       \* history: the state each invocation of agentFunction received
  raised,       \* history: the error each invocation raised
  sleeps        \* history: the backoff delays slept

wfVars    == <<mode, pc, st, pending, presults, timers, result, calls, returns,
               faults, before, stored, storeLog, runs>>
sharedVars == <<cache, metrics, now>>
limVars   == <<running, queue>>
callerVars == <<cpc, mq, waitLog, admitLog, wakeLog, outcome, allSettled>>
retryVars == <<rpc, attempt, rstate, lastError, rresult, rcalls, raised, sleeps>>
vars      == <<cache, metrics, running, queue, now, mode, pc, st, pending,
               presults, timers, result, calls, returns, cpc, mq, waitLog,
               admitLog, wakeLog, outcome, allSettled, rpc, attempt, rstate,
               lastError, rresult, rcalls, raised, sleeps, faults, before,
               stored, storeLog, runs>>

---------------------------------------------------------------------------
(* Errors thrown inside a stage or by an agent function.                   *)

\* The substrings the code looks for in a message.
Markers == {"quota", "429", "401", "403", "exceeded"}

\* error.status || error.statusCode || error.response?.status; 0: none.
Statuses == {0, 401, 403, 429}

\* Messages carry at most this many of the markers.
MaxMarkers == 1

\* The errors an agent function or a provider call is made to raise.
Errors ==
  [status : Statuses, msg : {m \in SUBSET Markers : Cardinality(m) <= MaxMarkers}]

NoError == [status |-> -1, msg |-> {}]

\* The markers contained in the fixed text of each template of
\* formatErrorMessage ("<agent> Error: API quota exceeded. ... wait for
\* quota reset." holds "quota" and "exceeded"; the others hold none).
TemplateText(kind) ==
  IF kind = "quota" THEN {"quota", "exceeded"} ELSE {}

\* formatErrorMessage: the message a stage appends to errors.  text is the
\* set of markers in the formatted string: those of the template, and those
\* of the error's own message where the template embeds it.
formatErrorMessage(error, agentName) ==
  IF error.status = 429 \/ "quota" \in error.msg \/ "429" \in error.msg
    THEN [agent |-> agentName, kind |-> "quota", text |-> TemplateText("quota")]
  ELSE IF error.status = 401 \/ "401" \in error.msg
    THEN [agent |-> agentName, kind |-> "auth401", text |-> TemplateText("auth401")]
  ELSE IF error.status = 403 \/ "403" \in error.msg
    THEN [agent |-> agentName, kind |-> "auth403",
          text |-> TemplateText("auth403") \cup error.msg]
  ELSE [agent |-> agentName, kind |-> "other",
        text |-> TemplateText("other") \cup error.msg]

\* A test for the markers 'quota' and '429' only.
hasQuotaErrorNoExceeded(state) ==
  \E i \in 1..Len(state.errors) :
    "quota" \in state.errors[i].text \/ "429" \in state.errors[i].text

\* hasQuotaError of executePatentWorkflow.
hasQuotaError(state) ==
  \E i \in 1..Len(state.errors) :
    \/ "quota" \in state.errors[i].text
    \/ "429" \in state.errors[i].text
    \/ "exceeded" \in state.errors[i].text

---------------------------------------------------------------------------
(* AgentCache                                                              *)

maxSize == 1000
ttl == 86400000

Min(a, b) == IF a < b THEN a ELSE b

\* JSON.stringify of a string without characters to escape: the bytes
\* between two double quotes.
Stringify(input) == <<34>> \o input \o <<34>>

\* The first 50 characters of the base64 text of a byte sequence: 300 bits,
\* the first 37 bytes and the high 4 bits of the 38th (0 where the text is
\* padded).
Base64Prefix50(bytes) ==
  [head |-> SubSeq(bytes, 1, Min(37, Len(bytes))),
   nibble |-> IF Len(bytes) >= 38 THEN bytes[38] \div 16 ELSE 0]

\* A key that leaves the agent name out.
generateKeyNoScope(agentName, input) ==
  [scope |-> "", enc |-> Base64Prefix50(Stringify(input))]

\* AgentCache.generateKey
generateKey(agentName, input) ==
  [scope |-> agentName, enc |-> Base64Prefix50(Stringify(input))]

CacheIndex(c, key) ==
  LET hits == {i \in 1..Len(c) : c[i].key = key}
  IN  IF hits = {} THEN 0 ELSE CHOOSE i \in hits : TRUE

RemoveAt(s, i) == SubSeq(s, 1, i - 1) \o SubSeq(s, i + 1, Len(s))

\* The values the direct callers of the store put: each names the scope and
\* the input of the key it was put under, and which of two values it is.
Value(scope, n, ver) == [scope |-> scope, n |-> n, ver |-> ver]
NoValue == Value("", 0, 0)

\* A get that takes an entry of age ttl for expired.
CacheGetExpiresAtTtl(c, key, t) ==
  LET i == CacheIndex(c, key)
  IN  IF i = 0 THEN [hit |-> FALSE, data |-> "", cache |-> c]
      ELSE IF t - c[i].timestamp >= ttl
        THEN [hit |-> FALSE, data |-> "", cache |-> RemoveAt(c, i)]
      ELSE [hit |-> TRUE, data |-> c[i].data, cache |-> c]

\* A get that moves the entry it returns to the young end of the store, as a
\* least-recently-used cache would.
CacheGetTouches(c, key, t) ==
  LET i == CacheIndex(c, key)
  IN  IF i = 0 THEN [hit |-> FALSE, data |-> "", cache |-> c]
      ELSE IF t - c[i].timestamp > ttl
        THEN [hit |-> FALSE, data |-> "", cache |-> RemoveAt(c, i)]
      ELSE [hit |-> TRUE, data |-> c[i].data,
            cache |-> Append(RemoveAt(c, i), c[i])]

\* AgentCache.get: the value (hit = FALSE for null) and the store after the
\* lazy eviction.
CacheGet(c, key, t) ==
  LET i == CacheIndex(c, key)
  IN  IF i = 0 THEN [hit |-> FALSE, data |-> "", cache |-> c]
      ELSE IF t - c[i].timestamp > ttl
        THEN [hit |-> FALSE, data |-> "", cache |-> RemoveAt(c, i)]
      ELSE [hit |-> TRUE, data |-> c[i].data, cache |-> c]

\* A set that leaves the entry of a key that is already stored as it is.
CacheSetKeepsOld(c, key, data, t) ==
  LET c1 == IF Len(c) >= maxSize THEN Tail(c) ELSE c
      i  == CacheIndex(c1, key)
      e  == [key |-> key, data |-> data, timestamp |-> t]
  IN  IF i = 0 THEN Append(c1, e) ELSE c1

\* A set that never evicts.
CacheSetNoEviction(c, key, data, t) ==
  LET i == CacheIndex(c, key)
      e == [key |-> key, data |-> data, timestamp |-> t]
  IN  IF i = 0 THEN Append(c, e) ELSE [c EXCEPT ![i] = e]

\* A set that evicts only once the store is over its capacity.
CacheSetEvictsAbove(c, key, data, t) ==
  LET c1 == IF Len(c) > maxSize THEN Tail(c) ELSE c
      i  == CacheIndex(c1, key)
      e  == [key |-> key, data |-> data, timestamp |-> t]
  IN  IF i = 0 THEN Append(c1, e) ELSE [c1 EXCEPT ![i] = e]

\* AgentCache.set: a Map keeps a key that is set again at its place.
CacheSet(c, key, data, t) ==
  LET c1 == IF Len(c) >= maxSize THEN Tail(c) ELSE c
      i  == CacheIndex(c1, key)
      e  == [key |-> key, data |-> data, timestamp |-> t]
  IN  IF i = 0 THEN Append(c1, e) ELSE [c1 EXCEPT ![i] = e]

\* AgentCache.clear
CacheClear(c) == <<>>

---------------------------------------------------------------------------
(* PerformanceMonitor                                                      *)

Stages == <<"search", "research", "claims", "document", "diagram">>
StageSet == {Stages[i] : i \in 1..Len(Stages)}

\* A quotient as the code computed it: numerator and divisor.
Quot(n, d) == [num |-> n, den |-> d]

NewAgentMetrics ==
  [totalExecutions |-> 0, totalTime |-> 0, averageTime |-> Quot(0, 1),
   successCount |-> 0, failureCount |-> 0]

\* PerformanceMonitor constructor and reset().  agentExecutions is the Map:
\* has[a] tells whether stage a has an entry.
NewMetrics ==
  [has |-> [a \in StageSet |-> FALSE],
   agentExecutions |-> [a \in StageSet |-> NewAgentMetrics],
   totalExecutionTime |-> 0, successfulExecutions |-> 0,
   failedExecutions |-> 0, averageResponseTime |-> Quot(0, 1)]

\* PerformanceMonitor.startTimer
startTimer(agentName, t) == [agentName |-> agentName, startTime |-> t]

\* An endTimer that divides by the counts as they were before this call.
endTimerDividesByOldCount(m, timer, success, t) ==
  LET executionTime == t - timer.startTime
      a   == timer.agentName
      old == IF m.has[a] THEN m.agentExecutions[a] ELSE NewAgentMetrics
      am  == [totalExecutions |-> old.totalExecutions + 1,
              totalTime |-> old.totalTime + executionTime,
              averageTime |-> Quot(old.totalTime + executionTime,
                                   old.totalExecutions),
              successCount |-> old.successCount + (IF success THEN 1 ELSE 0),
              failureCount |-> old.failureCount + (IF success THEN 0 ELSE 1)]
      succ == m.successfulExecutions + (IF success THEN 1 ELSE 0)
      fail == m.failedExecutions + (IF success THEN 0 ELSE 1)
  IN  [has |-> [m.has EXCEPT ![a] = TRUE],
       agentExecutions |-> [m.agentExecutions EXCEPT ![a] = am],
       totalExecutionTime |-> m.totalExecutionTime + executionTime,
       successfulExecutions |-> succ,
       failedExecutions |-> fail,
       averageResponseTime |-> Quot(m.totalExecutionTime + executionTime,
                                    m.successfulExecutions + m.failedExecutions)]

\* An endTimer that adds the time of a failed execution to the stage's
\* total only.
endTimerSkipsFailedTime(m, timer, success, t) ==
  LET executionTime == t - timer.startTime
      a   == timer.agentName
      old == IF m.has[a] THEN m.agentExecutions[a] ELSE NewAgentMetrics
      am  == [totalExecutions |-> old.totalExecutions + 1,
              totalTime |-> old.totalTime + executionTime,
              averageTime |-> Quot(old.totalTime + executionTime,
                                   old.totalExecutions + 1),
              successCount |-> old.successCount + (IF success THEN 1 ELSE 0),
              failureCount |-> old.failureCount + (IF success THEN 0 ELSE 1)]
      succ == m.successfulExecutions + (IF success THEN 1 ELSE 0)
      fail == m.failedExecutions + (IF success THEN 0 ELSE 1)
      time == m.totalExecutionTime + (IF success THEN executionTime ELSE 0)
  IN  [has |-> [m.has EXCEPT ![a] = TRUE],
       agentExecutions |-> [m.agentExecutions EXCEPT ![a] = am],
       totalExecutionTime |-> time,
       successfulExecutions |-> succ,
       failedExecutions |-> fail,
       averageResponseTime |-> Quot(time, succ + fail)]

\* PerformanceMonitor.endTimer
endTimer(m, timer, success, t) ==
  LET executionTime == t - timer.startTime
      a   == timer.agentName
      old == IF m.has[a] THEN m.agentExecutions[a] ELSE NewAgentMetrics
      am  == [totalExecutions |-> old.totalExecutions + 1,
              totalTime |-> old.totalTime + executionTime,
              averageTime |-> Quot(old.totalTime + executionTime,
                                   old.totalExecutions + 1),
              successCount |-> old.successCount + (IF success THEN 1 ELSE 0),
              failureCount |-> old.failureCount + (IF success THEN 0 ELSE 1)]
      succ == m.successfulExecutions + (IF success THEN 1 ELSE 0)
      fail == m.failedExecutions + (IF success THEN 0 ELSE 1)
  IN  [has |-> [m.has EXCEPT ![a] = TRUE],
       agentExecutions |-> [m.agentExecutions EXCEPT ![a] = am],
       totalExecutionTime |-> m.totalExecutionTime + executionTime,
       successfulExecutions |-> succ,
       failedExecutions |-> fail,
       averageResponseTime |-> Quot(m.totalExecutionTime + executionTime,
                                    succ + fail)]

---------------------------------------------------------------------------
(* The running state and the five stage agents                             *)

\* The abstracts a run is started with.
Abstracts == {<<97>>}

NoKey == [scope |-> "", enc |-> [head |-> <<>>, nibble |-> 0]]

Step(stage, status) == [stage |-> stage, status |-> status]

\* The initial state literal of executePatentWorkflow and of
\* executeParallelWorkflow.  Fields the literal leaves undefined:
\* cacheKey = NoKey, useAlternativePrompt = FALSE, retryCount = -1,
\* parallelResults = <<>>.
InitialState(abstract) ==
  [abstract |-> abstract, priorArt |-> "", noveltyAnalysis |-> "",
   patentDraft |-> "", diagrams |-> "", claims |-> "", errors |-> <<>>,
   currentStep |-> Step("", "started"), cacheKey |-> NoKey,
   useAlternativePrompt |-> FALSE, retryCount |-> -1,
   parallelResults |-> <<>>]

\* The agentName each stage passes to formatErrorMessage.
AgentName(stage) ==
  CASE stage = "search"   -> "Search Agent"
    [] stage = "research" -> "Research Agent"
    [] stage = "claims"   -> "Claims Agent"
    [] stage = "document" -> "Document Agent"
    [] stage = "diagram"  -> "Diagram Agent"

\* What the provider call (and the parse of its answer) of a stage does:
\* it yields the stage's data or throws an error: one with a status and no
\* marker in its message, or one without status whose message holds
\* "quota" or "exceeded".
StageErrors ==
  {e \in Errors : \/ e.msg = {}
                  \/ e.status = 0 /\ e.msg \in {{"quota"}, {"exceeded"}}}

\* The provider errors of the runs that store whole workflows: one error
\* without marker or status, or one quota error.
CachedFaultSets ==
  {{[status |-> 0, msg |-> {}]}, {[status |-> 0, msg |-> {"quota"}]}}

Outcomes ==
  {[ok |-> TRUE, err |-> NoError]} \cup {[ok |-> FALSE, err |-> e] : e \in faults}

\* The data a stage's provider call yields.
Produced(stage) == stage

\* The return of a stage in its try block: the field the stage owns is set.
Completed(stage, s, data) ==
  CASE stage = "search" ->
         [s EXCEPT !.priorArt = data, !.currentStep = Step(stage, "completed"),
                   !.cacheKey = generateKey("search", s.abstract)]
    [] stage = "research" ->
         [s EXCEPT !.noveltyAnalysis = data, !.currentStep = Step(stage, "completed")]
    [] stage = "claims" ->
         [s EXCEPT !.claims = data, !.currentStep = Step(stage, "completed")]
    [] stage = "document" ->
         [s EXCEPT !.patentDraft = data, !.currentStep = Step(stage, "completed")]
    [] stage = "diagram" ->
         [s EXCEPT !.diagrams = data, !.currentStep = Step(stage, "completed")]

\* A catch block that keeps only the new message.
FailedDropsErrors(stage, s, error) ==
  [s EXCEPT !.errors = <<formatErrorMessage(error, AgentName(stage))>>,
            !.currentStep = Step(stage, "failed")]

\* The return of a stage in its catch block.
Failed(stage, s, error) ==
  [s EXCEPT !.errors = Append(@, formatErrorMessage(error, AgentName(stage))),
            !.currentStep = Step(stage, "failed")]

NoTimer == [agentName |-> "", startTime |-> 0, cached |-> FALSE, data |-> ""]

\* The synchronous head of a stage agent, up to its first await: startTimer
\* and, in searchGenerationAgent, the cache lookup.  Yields the invocation's
\* handle (the timer, and the cached prior art on a hit) and the store.
AgentBegin(stage, s, c, t) ==
  LET g == IF stage = "search"
             THEN CacheGet(c, generateKey("search", s.abstract), t)
             ELSE [hit |-> FALSE, data |-> "", cache |-> c]
      tm == startTimer(stage, t)
  IN  [timer |-> [agentName |-> tm.agentName, startTime |-> tm.startTime,
                  cached |-> g.hit, data |-> g.data],
       cache |-> g.cache]

\* The rest of a stage agent: the state it returns, the store and the
\* metrics afterwards.  out is what the provider call did; it is not made
\* on a cache hit.
AgentEnd(stage, s, out, h, c, m, t) ==
  IF h.cached
    THEN [state |-> Completed(stage, s, h.data), cache |-> c,
          metrics |-> endTimer(m, h, TRUE, t)]
  ELSE IF out.ok
    THEN [state |-> Completed(stage, s, Produced(stage)),
          cache |-> IF stage = "search"
                      THEN CacheSet(c, generateKey("search", s.abstract),
                                    Produced(stage), t)
                      ELSE c,
          metrics |-> endTimer(m, h, TRUE, t)]
  ELSE [state |-> Failed(stage, s, out.err), cache |-> c,
        metrics |-> endTimer(m, h, FALSE, t)]

\* On a cache hit the provider is not called: one outcome stands for it.
OutcomesFor(h) == IF h.cached THEN {[ok |-> TRUE, err |-> NoError]} ELSE Outcomes

---------------------------------------------------------------------------
(* ParallelExecutionManager: the slot accounting shared by every caller    *)

maxConcurrent == 3

\* The test before the await in executeWithConcurrencyLimit.
MustWait(r) == r >= maxConcurrent

\* A release that takes the newest resolver (pop) instead of the oldest.
ReleaseNewest(r, q) ==
  [running |-> r - 1,
   queue |-> IF Len(q) > 0 THEN SubSeq(q, 1, Len(q) - 1) ELSE q,
   woken |-> IF Len(q) > 0 THEN <<q[Len(q)]>> ELSE <<>>]

\* A release that calls no resolver.
ReleaseNoWake(r, q) == [running |-> r - 1, queue |-> q, woken |-> <<>>]

\* A release that leaves the counter as it is.
ReleaseNoDecrement(r, q) ==
  [running |-> r,
   queue |-> IF Len(q) > 0 THEN Tail(q) ELSE q,
   woken |-> IF Len(q) > 0 THEN <<Head(q)>> ELSE <<>>]

\* The finally block of executeWithConcurrencyLimit: running--, then, if
\* the queue is not empty, shift its first resolver and call it.
Release(r, q) ==
  [running |-> r - 1,
   queue |-> IF Len(q) > 0 THEN Tail(q) ELSE q,
   woken |-> IF Len(q) > 0 THEN <<Head(q)>> ELSE <<>>]

---------------------------------------------------------------------------
(* executePatentWorkflow and executeParallelWorkflow                       *)

\* A mode name that is none of the switch's cases.
UnknownMode == "express"

\* The mode arguments of the runs: without and with 'cached'.
Modes == {"standard", "parallel", "robust", UnknownMode}
CachedModes == {"cached", "standard", "parallel", "robust"}

\* The modes that reach the sequential flow below the switch: 'cached'
\* after a miss (its case has no break) and `default:`, which takes
\* 'standard' and every name that is no case of the switch.
Sequential(m) == m \notin {"parallel", "robust"}

\* The clock readings a run may start at: multiples of the ttl.
TickMs == ttl
MaxTicks == 2
Times == {k * TickMs : k \in 0..MaxTicks}

At(at, i) == [at |-> at, i |-> i]

NoResult ==
  [returned |-> FALSE, success |-> FALSE, hasData |-> FALSE,
   data |-> InitialState(<<>>), error |-> "", message |-> "",
   hasMetrics |-> FALSE, metrics |-> NewMetrics]

\* PerformanceMonitor.getMetrics
getMetrics(m) == m

\* The object the early return on a quota error builds: it leaves the
\* function before result.metrics is set.
QuotaStop(s) ==
  [returned |-> TRUE, success |-> FALSE, hasData |-> TRUE, data |-> s,
   error |-> "API quota exceeded. Please check your OpenAI billing.",
   message |-> "Workflow stopped due to quota error",
   hasMetrics |-> FALSE, metrics |-> NewMetrics]

\* The result of a run that reached the end of its policy.
SuccessResult(s, msg, m) ==
  [returned |-> TRUE, success |-> TRUE, hasData |-> TRUE, data |-> s,
   error |-> "", message |-> msg, hasMetrics |-> TRUE, metrics |-> getMetrics(m)]

\* The object returned on a hit of the workflow entry: no metrics field.
CachedResult(data) ==
  [returned |-> TRUE, success |-> TRUE, hasData |-> TRUE, data |-> data,
   error |-> "", message |-> "Cached workflow result retrieved",
   hasMetrics |-> FALSE, metrics |-> NewMetrics]

Call(stage, s) == [stage |-> stage, input |-> s]

\* The initial state literal of executeRobustWorkflow.
RobustInitialState(abstract) == [InitialState(abstract) EXCEPT !.retryCount = 0]

\* No workflow entry was stored yet.  (stages: the stages the storing run
\* invoked, in order.)
NoStored ==
  [valid |-> FALSE, abstract |-> <<>>, state |-> InitialState(<<>>), at |-> 0,
   stages |-> <<>>]

\* A lookup of the workflow entry whatever the mode.
WorkflowLookupAnyMode(m, abstract, c, t) ==
  CacheGet(c, generateKey("workflow", abstract), t)

\* case 'cached': cache.get of the workflow key; the other cases of the
\* switch do not touch the store.
WorkflowLookup(m, abstract, c, t) ==
  IF m = "cached"
    THEN CacheGet(c, generateKey("workflow", abstract), t)
    ELSE [hit |-> FALSE, data |-> "", cache |-> c]

\* An entry that leaves the function for a name that is no case.
EntryRejectsUnknown(m) ==
  IF m = "parallel" THEN At("launch", 0)
  ELSE IF m \in {"standard", "robust", "cached"} THEN At("call", 1)
  ELSE At("done", 0)

\* Where the switch leads when no cached workflow is returned: 'parallel'
\* to executeParallelWorkflow, every other mode to a first stage.
Entry(m) == IF m = "parallel" THEN At("launch", 0) ELSE At("call", 1)

\* Going on with the stage two places after stage 1.
AdvanceSkipsResearch(i) == At("call", IF i = 1 THEN 3 ELSE i + 1)

\* After stage i has returned, the next await is stage i + 1.
Advance(i) == At("call", i + 1)

\* A launch that hands the agents a state already holding prior art.
LaunchStateWithPriorArt(s) == [s EXCEPT !.priorArt = Produced("search")]

\* executeParallel hands every agent the state it was called with.
LaunchState(s) == s

\* A gather that goes on when at most one agent is still pending.
AnyDone(p) == Cardinality(p) <= 1

\* Promise.all(promises) has resolved: no agent is pending.
AllDone(p) == p = {}

\* executePatentWorkflow(abstract, mode), called when the clock reads t:
\* monitor.reset(), then the switch.  'cached' looks the workflow entry up
\* and returns it on a hit.  Otherwise 'parallel' enters
\* executeParallelWorkflow, 'robust' enters executeRobustWorkflow, and every
\* other mode builds the state and goes on to the search agent.
StartRun(abstract, m, t) ==
  /\ pc.at \in {"idle", "done"}
  /\ t >= now
  /\ now' = t
  /\ mode' = m
  /\ metrics' = NewMetrics
  /\ st' = IF m = "robust" THEN RobustInitialState(abstract)
                           ELSE InitialState(abstract)
  /\ LET g == WorkflowLookup(m, abstract, cache, t) IN
       /\ cache' = g.cache
       /\ before' = [abstract |-> abstract,
                     metrics |-> IF g.hit THEN metrics ELSE NewMetrics,
                     stored |-> stored]
       /\ IF g.hit
            THEN /\ result' = CachedResult(g.data)
                 /\ pc' = At("done", 0)
            ELSE /\ result' = NoResult
                 /\ pc' = Entry(m)
  /\ pending' = {}
  /\ presults' = [a \in {"search", "research"} |-> InitialState(abstract)]
  /\ timers' = [a \in StageSet |-> NoTimer]
  /\ calls' = <<>>
  /\ returns' = <<>>
  /\ UNCHANGED <<faults, runs, storeLog, stored, limVars, callerVars, retryVars>>

\* `await <stage>GenerationAgent(state)`: the agent is invoked on the
\* running state and runs up to its provider call.
InvokeStage ==
  /\ pc.at = "call"
  /\ LET stage == Stages[pc.i]
         b == AgentBegin(stage, st, cache, now)
     IN  /\ calls' = Append(calls, Call(stage, st))
         /\ timers' = [timers EXCEPT ![stage] = b.timer]
         /\ cache' = b.cache
  /\ pc' = At("wait", pc.i)
  /\ UNCHANGED <<metrics, now, mode, st, pending, presults, result, returns,
                 faults, runs, storeLog, before, stored, limVars, callerVars, retryVars>>

\* Sequential policy: the agent returns; for the first four stages
\* hasQuotaError of the returned state decides between the early return
\* and the next stage; after the diagram agent the run returns success,
\* and in mode 'cached' it first puts the final state under the workflow
\* key.
SeqReturn ==
  /\ pc.at = "wait"
  /\ Sequential(mode)
  /\ LET stage == Stages[pc.i] IN
     \E out \in OutcomesFor(timers[stage]) :
       LET e == AgentEnd(stage, st, out, timers[stage], cache, metrics, now) IN
         /\ metrics' = e.metrics
         /\ returns' = Append(returns, e.state)
         /\ timers' = [timers EXCEPT ![stage] = NoTimer]
         /\ st' = e.state
         /\ IF pc.i < Len(Stages)
              THEN /\ cache' = e.cache
                   /\ stored' = stored
                   /\ IF hasQuotaError(e.state)
                        THEN /\ result' = QuotaStop(e.state)
                             /\ pc' = At("done", pc.i)
                        ELSE /\ result' = result
                             /\ pc' = Advance(pc.i)
              ELSE /\ IF mode = "cached"
                        THEN /\ cache' = CacheSet(e.cache,
                                            generateKey("workflow", st.abstract),
                                            e.state, now)
                             /\ stored' = [valid |-> TRUE, abstract |-> st.abstract,
                                           state |-> e.state, at |-> now,
                                           stages |-> [j \in 1..Len(calls) |->
                                                         calls[j].stage]]
                        ELSE /\ cache' = e.cache
                             /\ stored' = stored
                   /\ result' = SuccessResult(e.state,
                        "Patent creation workflow completed successfully using direct agent execution",
                        e.metrics)
                   /\ pc' = At("done", pc.i)
  /\ UNCHANGED <<now, mode, pending, presults, calls, faults, runs, storeLog, before, limVars,
                 callerVars, retryVars>>

\* Parallel policy: executeParallel calls executeWithConcurrencyLimit for
\* search and then for research, both on the initial state.  Each call runs
\* synchronously through the slot test, running++ and the head of the agent.
\* No other caller uses the manager during a run, so neither call waits.
ParLaunch ==
  /\ pc.at = "launch"
  /\ ~MustWait(running) /\ ~MustWait(running + 1)
  /\ LET s0 == LaunchState(st)
         b1 == AgentBegin("search", s0, cache, now)
         b2 == AgentBegin("research", s0, b1.cache, now)
     IN  /\ calls' = calls \o <<Call("search", s0), Call("research", s0)>>
         /\ timers' = [timers EXCEPT !["search"] = b1.timer,
                                     !["research"] = b2.timer]
         /\ cache' = b2.cache
  /\ running' = running + 2
  /\ pending' = {"search", "research"}
  /\ pc' = At("gather", 0)
  /\ UNCHANGED <<metrics, now, mode, st, presults, result, returns, queue,
                 faults, runs, storeLog, before, stored, callerVars, retryVars>>

\* Parallel policy: one of the two agents returns; the finally block frees
\* its slot and the then-callback stores the state under the agent's name.
ParReturn(stage) ==
  /\ pc.at = "gather"
  /\ stage \in pending
  /\ \E out \in OutcomesFor(timers[stage]) :
       LET e == AgentEnd(stage, st, out, timers[stage], cache, metrics, now)
           rel == Release(running, queue)
       IN  /\ cache' = e.cache
           /\ metrics' = e.metrics
           /\ returns' = Append(returns, e.state)
           /\ presults' = [presults EXCEPT ![stage] = e.state]
           /\ running' = rel.running
           /\ queue' = rel.queue
           /\ mq' = mq \o rel.woken
  /\ timers' = [timers EXCEPT ![stage] = NoTimer]
  /\ pending' = pending \ {stage}
  /\ UNCHANGED <<now, mode, pc, st, result, calls, faults, runs, storeLog, before, stored,
                 cpc, waitLog, admitLog, wakeLog, outcome, allSettled, retryVars>>

\* Parallel policy: Promise.all has resolved; the state for the dependent
\* agents is the initial state with search's priorArt, research's
\* noveltyAnalysis and the two results.
ParMerge ==
  /\ pc.at = "gather"
  /\ AllDone(pending)
  /\ st' = [st EXCEPT !.priorArt = presults["search"].priorArt,
                      !.noveltyAnalysis = presults["research"].noveltyAnalysis,
                      !.parallelResults = <<presults["search"], presults["research"]>>]
  /\ pc' = At("call", 3)
  /\ UNCHANGED <<sharedVars, mode, pending, presults, timers, result, calls,
                 returns, faults, runs, storeLog, before, stored, limVars, callerVars, retryVars>>

\* Parallel policy: claims, document and diagram return one after the
\* other; nothing is tested in between, and after the diagram agent the run
\* returns success.  (No agent throws, so the catch block is never entered.)
ParTailReturn ==
  /\ pc.at = "wait"
  /\ mode = "parallel"
  /\ LET stage == Stages[pc.i] IN
     \E out \in OutcomesFor(timers[stage]) :
       LET e == AgentEnd(stage, st, out, timers[stage], cache, metrics, now) IN
         /\ cache' = e.cache
         /\ metrics' = e.metrics
         /\ returns' = Append(returns, e.state)
         /\ timers' = [timers EXCEPT ![stage] = NoTimer]
         /\ st' = e.state
         /\ IF pc.i < Len(Stages)
              THEN /\ result' = result
                   /\ pc' = Advance(pc.i)
              ELSE /\ result' = SuccessResult(e.state,
                        "Enhanced parallel workflow completed successfully",
                        e.metrics)
                   /\ pc' = At("done", pc.i)
  /\ UNCHANGED <<now, mode, pending, presults, calls, faults, runs, storeLog, before, stored,
                 limVars, callerVars, retryVars>>

\* Retry-hardened policy: the agent, invoked by the first attempt of
\* executeWithRetry, returns a state (a '<stage>_failed' one when its
\* provider call threw), which executeWithRetry returns at once; nothing is
\* tested in between, and after the diagram agent the run returns success.
\* (No agent throws, so neither the catch block of executeWithRetry nor the
\* one of executeRobustWorkflow is ever entered.)
RobustReturn ==
  /\ pc.at = "wait"
  /\ mode = "robust"
  /\ LET stage == Stages[pc.i] IN
     \E out \in OutcomesFor(timers[stage]) :
       LET e == AgentEnd(stage, st, out, timers[stage], cache, metrics, now) IN
         /\ cache' = e.cache
         /\ metrics' = e.metrics
         /\ returns' = Append(returns, e.state)
         /\ timers' = [timers EXCEPT ![stage] = NoTimer]
         /\ st' = e.state
         /\ IF pc.i < Len(Stages)
              THEN /\ result' = result
                   /\ pc' = Advance(pc.i)
              ELSE /\ result' = SuccessResult(e.state,
                        "Robust workflow completed successfully", e.metrics)
                   /\ pc' = At("done", pc.i)
  /\ UNCHANGED <<now, mode, pending, presults, calls, faults, runs, storeLog, before, stored,
                 limVars, callerVars, retryVars>>

---------------------------------------------------------------------------
(* Initial state and the specification of the workflow                     *)

\* The callers of the manager: the first GroupSize are the agents of one
\* executeParallel call, the others call executeWithConcurrencyLimit on
\* their own.
NumCallers == 5
GroupSize == 2
Callers == 1..NumCallers
Group == 1..GroupSize

NoState == InitialState(<<>>)

\* The history of the store's direct callers before their first operation.
NoSet ==
  [valid |-> FALSE, scope |-> "", n |-> 0, ver |-> 0, at |-> 0,
   present |-> FALSE, sizeBefore |-> 0, first |-> NoKey]
NoGet ==
  [valid |-> FALSE, scope |-> "", n |-> 0, hit |-> FALSE, data |-> NoValue,
   at |-> 0, pos |-> 0, set |-> NoSet]
NoInsert ==
  [valid |-> FALSE, n |-> 0, sizeBefore |-> 0, first |-> NoKey, get |-> NoGet]
NoStoreLog ==
  [fresh |-> 0, ops |-> 0, set |-> NoSet, get |-> NoGet, insert |-> NoInsert]

\* The calls of executePatentWorkflow that overlap, before they are made.
OverlapRuns == {1, 2}
NoRun ==
  [pc |-> At("idle", 0), st |-> NoState, timer |-> NoTimer, invoked |-> 0,
   result |-> NoResult]

InitBase ==
  /\ cache = <<>>
  /\ metrics = NewMetrics
  /\ running = 0
  /\ queue = <<>>
  /\ now = 0
  /\ mode = ""
  /\ pc = At("idle", 0)
  /\ st = NoState
  /\ pending = {}
  /\ presults = [a \in {"search", "research"} |-> NoState]
  /\ timers = [a \in StageSet |-> NoTimer]
  /\ result = NoResult
  /\ calls = <<>>
  /\ returns = <<>>
  /\ before = [abstract |-> <<>>, metrics |-> NewMetrics, stored |-> NoStored]
  /\ stored = NoStored
  /\ storeLog = NoStoreLog
  /\ runs = [r \in OverlapRuns |-> NoRun]
  /\ cpc = [c \in Callers |-> "idle"]
  /\ mq = <<>>
  /\ waitLog = <<>>
  /\ admitLog = <<>>
  /\ wakeLog = {}
  /\ outcome = [c \in Callers |-> "none"]
  /\ allSettled = "none"
  /\ rpc = "idle"
  /\ attempt = 0
  /\ rstate = NoState
  /\ lastError = NoError
  /\ rresult = [kind |-> "none", state |-> InitialState(<<>>), error |-> NoError]
  /\ rcalls = <<>>
  /\ raised = <<>>
  /\ sleeps = <<>>

\* The provider may throw any of the stage errors.
Init == InitBase /\ faults = StageErrors

\* The steps of a run after its call.
Run ==
  \/ InvokeStage
  \/ SeqReturn
  \/ ParLaunch
  \/ \E stage \in {"search", "research"} : ParReturn(stage)
  \/ ParMerge
  \/ ParTailReturn
  \/ RobustReturn

Next ==
  \/ \E a \in Abstracts, m \in Modes, t \in Times : StartRun(a, m, t)
  \/ Run

Spec == Init /\ [][Next]_vars

\* Runs that may use the workflow entry of the store, with a provider that
\* throws one kind of error.
InitCached == InitBase /\ faults \in CachedFaultSets

NextCached ==
  \/ \E a \in Abstracts, m \in CachedModes, t \in Times : StartRun(a, m, t)
  \/ Run

SpecCached == InitCached /\ [][NextCached]_vars

---------------------------------------------------------------------------
(* Calls of executePatentWorkflow in the default mode that overlap in time: *)
(* each is suspended at the await of a stage agent while the other goes    *)
(* on; both use the one cache and the one monitor of the module.           *)

\* Call r is made: monitor.reset(), the state literal, on to the search
\* agent.
OverlapStart(r, abstract) ==
  /\ runs[r].pc.at = "idle"
  /\ metrics' = NewMetrics
  /\ runs' = [runs EXCEPT ![r] = [pc |-> Entry("standard"),
                                  st |-> InitialState(abstract),
                                  timer |-> NoTimer, invoked |-> 0,
                                  result |-> NoResult]]
  /\ UNCHANGED <<cache, now, mode, pc, st, pending, presults, timers, result,
                 calls, returns, faults, before, stored, storeLog, limVars,
                 callerVars, retryVars>>

\* Call r invokes its next stage agent, which runs up to its provider call.
OverlapInvoke(r) ==
  /\ runs[r].pc.at = "call"
  /\ LET stage == Stages[runs[r].pc.i]
         b == AgentBegin(stage, runs[r].st, cache, now)
     IN  /\ cache' = b.cache
         /\ runs' = [runs EXCEPT ![r].timer = b.timer,
                                 ![r].invoked = @ + 1,
                                 ![r].pc = At("wait", runs[r].pc.i)]
  /\ UNCHANGED <<metrics, now, mode, pc, st, pending, presults, timers,
                 result, calls, returns, faults, before, stored, storeLog,
                 limVars, callerVars, retryVars>>

\* The stage agent of call r returns: the early return on a quota error,
\* the next stage, or after the diagram agent the success result with
\* monitor.getMetrics().
OverlapReturn(r) ==
  /\ runs[r].pc.at = "wait"
  /\ LET i == runs[r].pc.i
         stage == Stages[i]
     IN
     \E out \in OutcomesFor(runs[r].timer) :
       LET e == AgentEnd(stage, runs[r].st, out, runs[r].timer, cache,
                         metrics, now)
       IN  /\ metrics' = e.metrics
           /\ cache' = e.cache
           /\ runs' = [runs EXCEPT
                 ![r].st = e.state,
                 ![r].timer = NoTimer,
                 ![r].pc = IF i < Len(Stages) /\ ~hasQuotaError(e.state)
                             THEN Advance(i) ELSE At("done", i),
                 ![r].result =
                   IF i < Len(Stages)
                     THEN IF hasQuotaError(e.state) THEN QuotaStop(e.state)
                                                    ELSE @
                     ELSE SuccessResult(e.state,
                            "Patent creation workflow completed successfully using direct agent execution",
                            e.metrics)]
  /\ UNCHANGED <<now, mode, pc, st, pending, presults, timers, result, calls,
                 returns, faults, before, stored, storeLog, limVars,
                 callerVars, retryVars>>

NextOverlap ==
  \/ \E r \in OverlapRuns, a \in Abstracts : OverlapStart(r, a)
  \/ \E r \in OverlapRuns : OverlapInvoke(r)
  \/ \E r \in OverlapRuns : OverlapReturn(r)

SpecOverlap == InitCached /\ [][NextOverlap]_vars

\* Runs in mode 'cached' on several abstracts: a short one, and two long
\* ones that share their first 37 characters and differ in the 38th.
CommonPrefix == [i \in 1..37 |-> 97]
LongAbstracts == {CommonPrefix \o <<97>>, CommonPrefix \o <<98>>}
KeyedAbstracts == Abstracts \cup LongAbstracts

NextKeyed ==
  \/ \E a \in KeyedAbstracts, t \in Times : StartRun(a, "cached", t)
  \/ InvokeStage
  \/ SeqReturn

\* The provider does not throw in these runs.
InitKeyed == InitBase /\ faults = {}

SpecKeyed == InitKeyed /\ [][NextKeyed]_vars

---------------------------------------------------------------------------
(* Callers of the shared ParallelExecutionManager                          *)
(*                                                                         *)
(* A caller is "idle" before its call, "waiting" while its resolver sits   *)
(* in the queue, "woken" once the resolver was called and its continuation *)
(* is a queued microtask, "running" while its stage function is in flight, *)
(* "settled" once the stage function's promise settled and the finally     *)
(* block is a queued microtask, and "done" after the finally block.        *)
(* Microtasks run in the order they were queued; calls and settlements     *)
(* come from the host program and may fall between any two of them.        *)

\* executeWithConcurrencyLimit up to its first await, for caller c, on the
\* manager (r, q), callers' positions p and suspension history w.
Enter(c, r, q, p, w) ==
  IF MustWait(r)
    THEN [running |-> r, queue |-> Append(q, c),
          cpc |-> [p EXCEPT ![c] = "waiting"], waitLog |-> Append(w, c)]
    ELSE [running |-> r + 1, queue |-> q,
          cpc |-> [p EXCEPT ![c] = "running"], waitLog |-> w]

\* The for loop of executeParallel: agents i..n call
\* executeWithConcurrencyLimit one after the other, synchronously.
RECURSIVE EnterAll(_, _, _, _, _, _)
EnterAll(i, n, r, q, p, w) ==
  IF i > n THEN [running |-> r, queue |-> q, cpc |-> p, waitLog |-> w]
  ELSE LET e == Enter(i, r, q, p, w)
       IN  EnterAll(i + 1, n, e.running, e.queue, e.cpc, e.waitLog)

\* A caller of its own calls executeWithConcurrencyLimit.  These callers
\* are numbered in the order of their calls.
Arrive(c) ==
  /\ c \notin Group
  /\ cpc[c] = "idle"
  /\ \A d \in Callers \ Group : d < c => cpc[d] # "idle"
  /\ LET e == Enter(c, running, queue, cpc, waitLog)
     IN  /\ running' = e.running
         /\ queue' = e.queue
         /\ cpc' = e.cpc
         /\ waitLog' = e.waitLog
  /\ UNCHANGED <<sharedVars, wfVars, retryVars, mq, admitLog, wakeLog,
                 outcome, allSettled>>

\* executeParallel(agents, state) is called: every agent enters, then
\* Promise.all awaits them.
LaunchParallel ==
  /\ allSettled = "none"
  /\ LET e == EnterAll(1, GroupSize, running, queue, cpc, waitLog)
     IN  /\ running' = e.running
         /\ queue' = e.queue
         /\ cpc' = e.cpc
         /\ waitLog' = e.waitLog
  /\ allSettled' = "pending"
  /\ UNCHANGED <<sharedVars, wfVars, retryVars, mq, admitLog, wakeLog, outcome>>

\* The stage function of caller c returns or raises: the rest of
\* executeWithConcurrencyLimit (the finally block) becomes a microtask.
Settle(c, o) ==
  /\ cpc[c] = "running"
  /\ cpc' = [cpc EXCEPT ![c] = "settled"]
  /\ outcome' = [outcome EXCEPT ![c] = o]
  /\ mq' = Append(mq, c)
  /\ UNCHANGED <<sharedVars, wfVars, retryVars, limVars, waitLog, admitLog,
                 wakeLog, allSettled>>

\* The next microtask is the continuation of a woken caller: past the
\* await, running++ and the stage function is invoked.
Resume ==
  /\ mq # <<>>
  /\ cpc[Head(mq)] = "woken"
  /\ running' = running + 1
  /\ cpc' = [cpc EXCEPT ![Head(mq)] = "running"]
  /\ admitLog' = Append(admitLog, Head(mq))
  /\ mq' = Tail(mq)
  /\ UNCHANGED <<sharedVars, wfVars, retryVars, queue, waitLog, wakeLog,
                 outcome, allSettled>>

\* The next microtask is the finally block of a settled caller.
Finish ==
  /\ mq # <<>>
  /\ cpc[Head(mq)] = "settled"
  /\ LET rel == Release(running, queue)
     IN  /\ running' = rel.running
         /\ queue' = rel.queue
         /\ mq' = Tail(mq) \o rel.woken
         /\ cpc' = [c \in Callers |->
                      IF c = Head(mq) THEN "done"
                      ELSE IF \E i \in 1..Len(rel.woken) : rel.woken[i] = c
                        THEN "woken"
                      ELSE cpc[c]]
         /\ wakeLog' = wakeLog \cup
              {[queued |-> Len(queue), called |-> Len(rel.woken)]}
  /\ UNCHANGED <<sharedVars, wfVars, retryVars, waitLog, admitLog, outcome,
                 allSettled>>

\* Promise.all rejects as soon as one of its promises has rejected.
AllReject ==
  /\ allSettled = "pending"
  /\ \E c \in Group : cpc[c] = "done" /\ outcome[c] = "raised"
  /\ allSettled' = "rejected"
  /\ UNCHANGED <<sharedVars, wfVars, retryVars, limVars, cpc, mq, waitLog,
                 admitLog, wakeLog, outcome>>

\* Promise.all resolves once every one of its promises has resolved.
AllResolve ==
  /\ allSettled = "pending"
  /\ \A c \in Group : cpc[c] = "done" /\ outcome[c] = "returned"
  /\ allSettled' = "resolved"
  /\ UNCHANGED <<sharedVars, wfVars, retryVars, limVars, cpc, mq, waitLog,
                 admitLog, wakeLog, outcome>>

NextLimiter ==
  \/ \E c \in Callers : Arrive(c)
  \/ LaunchParallel
  \/ \E c \in Callers, o \in {"returned", "raised"} : Settle(c, o)
  \/ Resume
  \/ Finish
  \/ AllReject
  \/ AllResolve

SpecLimiter == Init /\ [][NextLimiter]_vars

\* The limiter under the scheduling of the runtime: a queued microtask is
\* run, and every stage function in flight returns or raises in the end.
FairLimiter ==
  /\ SpecLimiter
  /\ WF_vars(Resume)
  /\ WF_vars(Finish)
  /\ \A c \in Callers : WF_vars(\E o \in {"returned", "raised"} : Settle(c, o))

---------------------------------------------------------------------------
(* ErrorRecovery.executeWithRetry, called with an agent function that      *)
(* returns a state or raises an error on each invocation                   *)

maxRetries == 3
backoffMultiplier == 2

RECURSIVE Pow(_, _)
Pow(b, n) == IF n = 0 THEN 1 ELSE b * Pow(b, n - 1)

\* A loop test that stops one attempt early.
LoopTestOffByOne(a) == a < maxRetries

\* The test of the for loop.
LoopTest(a) == a <= maxRetries

\* The errors the catch block throws again at once.
NonRetryable(error) ==
  error.status = 429 \/ error.status = 401 \/ "quota" \in error.msg

\* A backoff that starts at one second.
DelayFromOneSecond(a) == Pow(backoffMultiplier, a - 1) * 1000

\* Math.pow(this.backoffMultiplier, attempt) * 1000
Delay(a) == Pow(backoffMultiplier, a) * 1000

\* The state after the sleep: the hint is set if attempt === 2.
WithHint(s, a) == IF a = 2 THEN [s EXCEPT !.useAlternativePrompt = TRUE] ELSE s

\* executeWithRetry(agentFunction, state, agentName) is called.
RetryCall(abstract) ==
  /\ rpc = "idle"
  /\ attempt' = 1
  /\ rstate' = RobustInitialState(abstract)
  /\ rpc' = "test"
  /\ UNCHANGED <<sharedVars, wfVars, limVars, callerVars, lastError, rresult,
                 rcalls, raised, sleeps>>

\* The loop test holds: agentFunction(state) is invoked.
RetryInvoke ==
  /\ rpc = "test"
  /\ LoopTest(attempt)
  /\ rcalls' = Append(rcalls, rstate)
  /\ rpc' = "await"
  /\ UNCHANGED <<sharedVars, wfVars, limVars, callerVars, attempt, rstate,
                 lastError, rresult, raised, sleeps>>

\* The loop test fails: throw lastError.
RetryExhausted ==
  /\ rpc = "test"
  /\ ~LoopTest(attempt)
  /\ rresult' = [kind |-> "raised", state |-> NoState, error |-> lastError]
  /\ rpc' = "done"
  /\ UNCHANGED <<sharedVars, wfVars, limVars, callerVars, attempt, rstate,
                 lastError, rcalls, raised, sleeps>>

\* agentFunction returns a state: executeWithRetry returns it.
RetryAgentReturns ==
  /\ rpc = "await"
  /\ rresult' = [kind |-> "returned",
                 state |-> [rstate EXCEPT !.currentStep = Step("agent", "completed")],
                 error |-> NoError]
  /\ rpc' = "done"
  /\ UNCHANGED <<sharedVars, wfVars, limVars, callerVars, attempt, rstate,
                 lastError, rcalls, raised, sleeps>>

\* agentFunction raises error: the catch block.  A non-retryable error is
\* thrown again; otherwise, if attempt < maxRetries the call sleeps, and if
\* not the loop goes on to its next test.
RetryAgentRaises(error) ==
  /\ rpc = "await"
  /\ lastError' = error
  /\ raised' = Append(raised, error)
  /\ IF NonRetryable(error)
       THEN /\ rresult' = [kind |-> "raised", state |-> NoState, error |-> error]
            /\ rpc' = "done"
            /\ UNCHANGED <<attempt, sleeps>>
       ELSE IF attempt < maxRetries
         THEN /\ sleeps' = Append(sleeps, Delay(attempt))
              /\ rpc' = "sleep"
              /\ UNCHANGED <<attempt, rresult>>
         ELSE /\ attempt' = attempt + 1
              /\ rpc' = "test"
              /\ UNCHANGED <<sleeps, rresult>>
  /\ UNCHANGED <<sharedVars, wfVars, limVars, callerVars, rstate, rcalls>>

\* The sleep is over: the hint, then attempt++.
RetryWake ==
  /\ rpc = "sleep"
  /\ rstate' = WithHint(rstate, attempt)
  /\ attempt' = attempt + 1
  /\ rpc' = "test"
  /\ UNCHANGED <<sharedVars, wfVars, limVars, callerVars, lastError, rresult,
                 rcalls, raised, sleeps>>

NextRetry ==
  \/ \E a \in Abstracts : RetryCall(a)
  \/ RetryInvoke
  \/ RetryExhausted
  \/ RetryAgentReturns
  \/ \E e \in Errors : RetryAgentRaises(e)
  \/ RetryWake

SpecRetry == Init /\ [][NextRetry]_vars

---------------------------------------------------------------------------
(* Callers of the PerformanceMonitor: timers of two agents are started and *)
(* ended at any readings of the clock, and the metrics are reset in        *)
(* between.                                                                *)

\* The agents whose timers are started.
MonAgents == {"search", "research"}

\* The timers ended between two resets are at most this many.
MaxEnds == 3

\* monitor.startTimer(agentName) when the clock reads t.
MonStart(a, t) ==
  /\ timers[a] = NoTimer
  /\ t >= now
  /\ now' = t
  /\ timers' = [timers EXCEPT ![a] =
                  [agentName |-> startTimer(a, t).agentName,
                   startTime |-> startTimer(a, t).startTime,
                   cached |-> FALSE, data |-> ""]]
  /\ UNCHANGED <<cache, metrics, mode, pc, st, pending, presults, result,
                 calls, returns, faults, runs, storeLog, before, stored, limVars, callerVars,
                 retryVars>>

\* monitor.endTimer(timer, success) when the clock reads t.
MonEnd(a, success, t) ==
  /\ timers[a] # NoTimer
  /\ metrics.successfulExecutions + metrics.failedExecutions < MaxEnds
  /\ t >= now
  /\ now' = t
  /\ metrics' = endTimer(metrics, timers[a], success, t)
  /\ timers' = [timers EXCEPT ![a] = NoTimer]
  /\ UNCHANGED <<cache, mode, pc, st, pending, presults, result, calls,
                 returns, faults, runs, storeLog, before, stored, limVars, callerVars, retryVars>>

\* monitor.reset()
MonReset ==
  /\ metrics' = NewMetrics
  /\ UNCHANGED <<cache, now, wfVars, limVars, callerVars, retryVars>>

NextMonitor ==
  \/ \E a \in MonAgents, t \in Times : MonStart(a, t)
  \/ \E a \in MonAgents, success \in BOOLEAN, t \in Times : MonEnd(a, success, t)
  \/ MonReset

SpecMonitor == Init /\ [][NextMonitor]_vars

---------------------------------------------------------------------------
(* ErrorRecovery.executeWithFallback, called with a primary and a fallback *)
(* function that each return a state or raise an error.  The call uses the *)
(* variables of an executeWithRetry call: rcalls holds the state the       *)
(* primary and then the fallback received, raised their errors.            *)

\* A catch block that throws the primary's error.
FallbackErrorPrimary(error, fallbackError) == error

\* `throw fallbackError` in the inner catch block.
FallbackError(error, fallbackError) == fallbackError

\* The states executeWithFallback is called with.
FallbackStates ==
  {InitialState(a) : a \in Abstracts} \cup {RobustInitialState(a) : a \in Abstracts}

\* executeWithFallback(primaryFunction, fallbackFunction, state, agentName)
\* is called: primaryFunction(state) is invoked.
FallbackCall(s) ==
  /\ rpc = "idle"
  /\ rstate' = s
  /\ rcalls' = Append(rcalls, s)
  /\ rpc' = "primary"
  /\ UNCHANGED <<sharedVars, wfVars, limVars, callerVars, attempt, lastError,
                 rresult, raised, sleeps>>

\* primaryFunction returns a state: executeWithFallback returns it.
PrimaryReturns ==
  /\ rpc = "primary"
  /\ rresult' = [kind |-> "returned",
                 state |-> [rstate EXCEPT !.currentStep = Step("primary", "completed")],
                 error |-> NoError]
  /\ rpc' = "done"
  /\ UNCHANGED <<sharedVars, wfVars, limVars, callerVars, attempt, rstate,
                 lastError, rcalls, raised, sleeps>>

\* primaryFunction raises: the catch block invokes fallbackFunction(state).
PrimaryRaises(error) ==
  /\ rpc = "primary"
  /\ raised' = Append(raised, error)
  /\ rcalls' = Append(rcalls, rstate)
  /\ rpc' = "fallback"
  /\ UNCHANGED <<sharedVars, wfVars, limVars, callerVars, attempt, rstate,
                 lastError, rresult, sleeps>>

\* fallbackFunction returns a state: executeWithFallback returns it.
FallbackReturns ==
  /\ rpc = "fallback"
  /\ rresult' = [kind |-> "returned",
                 state |-> [rstate EXCEPT !.currentStep = Step("fallback", "completed")],
                 error |-> NoError]
  /\ rpc' = "done"
  /\ UNCHANGED <<sharedVars, wfVars, limVars, callerVars, attempt, rstate,
                 lastError, rcalls, raised, sleeps>>

\* fallbackFunction raises: the inner catch block throws its error.
FallbackRaises(fallbackError) ==
  /\ rpc = "fallback"
  /\ raised' = Append(raised, fallbackError)
  /\ rresult' = [kind |-> "raised", state |-> NoState,
                 error |-> FallbackError(raised[1], fallbackError)]
  /\ rpc' = "done"
  /\ UNCHANGED <<sharedVars, wfVars, limVars, callerVars, attempt, rstate,
                 lastError, rcalls, sleeps>>

NextFallback ==
  \/ \E s \in FallbackStates : FallbackCall(s)
  \/ PrimaryReturns
  \/ \E e \in Errors : PrimaryRaises(e)
  \/ FallbackReturns
  \/ \E e \in Errors : FallbackRaises(e)

SpecFallback == Init /\ [][NextFallback]_vars

----------------------------------------------------------------------------
(* AgentCache used directly: set and get under the keys of generateKey.    *)
(* The capacity is the code's 1000, so the store is first filled by        *)
(* inserts of new keys at one clock reading (inputs "1", "2", ...), and    *)
(* then takes a few operations of any kind at any later clock reading.     *)

\* The operations after the filling.
MaxOps == 3

\* The input texts: the decimal digits of n, as bytes.
RECURSIVE Digits(_)
Digits(n) ==
  IF n < 10 THEN <<48 + n>> ELSE Digits(n \div 10) \o <<48 + (n % 10)>>

StoreScopes == {"search", "workflow"}
StoreKey(scope, n) == generateKey(scope, Digits(n))

\* The key that set and get are tried on: the first one inserted.
ProbeInputs == {1}

\* Operations other than the filling start on the empty store or around
\* its capacity.
Filled ==
  storeLog.fresh = 0 \/ storeLog.fresh >= maxSize - 1

\* cache.set(key, value) under a key that was never used.
StoreInsert ==
  /\ pc.at = "idle"
  /\ IF storeLog.ops = 0 THEN storeLog.fresh <= maxSize
                          ELSE storeLog.ops < MaxOps
  /\ LET n == storeLog.fresh + 1
     IN  /\ cache' = CacheSet(cache, StoreKey("search", n),
                              Value("search", n, 1), now)
         /\ storeLog' =
              [fresh  |-> n,
               ops    |-> IF storeLog.ops = 0 THEN 0 ELSE storeLog.ops + 1,
               set    |-> NoSet,
               get    |-> NoGet,
               insert |-> [valid |-> TRUE, n |-> n, sizeBefore |-> Len(cache),
                           first |-> IF cache = <<>> THEN NoKey
                                     ELSE cache[1].key,
                           get |-> storeLog.get]]
  /\ UNCHANGED <<metrics, now, mode, pc, st, pending,
                 presults, timers, result, calls, returns, faults, runs, before,
                 stored, limVars, callerVars, retryVars>>

\* cache.set(key, value) at the clock reading t.
StoreSet(scope, n, ver, t) ==
  /\ pc.at = "idle"
  /\ Filled
  /\ storeLog.ops < MaxOps
  /\ t >= now
  /\ now' = t
  /\ cache' = CacheSet(cache, StoreKey(scope, n), Value(scope, n, ver), t)
  /\ storeLog' =
       [storeLog EXCEPT !.ops = @ + 1,
                        !.set = [valid |-> TRUE, scope |-> scope, n |-> n,
                                 ver |-> ver, at |-> t,
                                 present |->
                                   CacheIndex(cache, StoreKey(scope, n)) # 0,
                                 sizeBefore |-> Len(cache),
                                 first |-> IF cache = <<>> THEN NoKey
                                           ELSE cache[1].key],
                        !.get = NoGet,
                        !.insert = NoInsert]
  /\ UNCHANGED <<metrics, mode, pc, st, pending, presults,
                 timers, result, calls, returns, faults, runs, before, stored,
                 limVars, callerVars, retryVars>>

\* cache.get(key) at the clock reading t.
StoreGet(scope, n, t) ==
  /\ pc.at = "idle"
  /\ Filled
  /\ storeLog.ops < MaxOps
  /\ t >= now
  /\ now' = t
  /\ LET key == StoreKey(scope, n)
         g   == CacheGet(cache, key, t)
     IN  /\ cache' = g.cache
         /\ storeLog' =
              [storeLog EXCEPT
                 !.ops = @ + 1,
                 !.set = NoSet,
                 !.get = [valid |-> TRUE, scope |-> scope, n |-> n,
                          hit |-> g.hit,
                          data |-> IF g.hit THEN g.data ELSE NoValue,
                          at |-> t, pos |-> CacheIndex(cache, key),
                          set |-> storeLog.set],
                 !.insert = NoInsert]
  /\ UNCHANGED <<metrics, mode, pc, st, pending, presults,
                 timers, result, calls, returns, faults, runs, before, stored,
                 limVars, callerVars, retryVars>>

\* cache.clear()
StoreClear ==
  /\ pc.at = "idle"
  /\ Filled
  /\ storeLog.ops < MaxOps
  /\ cache # <<>>
  /\ cache' = CacheClear(cache)
  /\ storeLog' = [storeLog EXCEPT !.ops = @ + 1, !.set = NoSet,
                                  !.get = NoGet, !.insert = NoInsert]
  /\ UNCHANGED <<metrics, now, mode, pc, st, pending, presults, timers,
                 result, calls, returns, faults, runs, before, stored, limVars,
                 callerVars, retryVars>>

NextStore ==
  \/ StoreInsert
  \/ StoreClear
  \/ \E scope \in StoreScopes, n \in ProbeInputs, ver \in 1..2, t \in Times :
       StoreSet(scope, n, ver, t)
  \/ \E scope \in StoreScopes, n \in ProbeInputs, t \in Times :
       StoreGet(scope, n, t)

SpecStore == Init /\ [][NextStore]_vars

---------------------------------------------------------------------------
(* Claims about the sequential and the parallel policy                     *)

StageIdx(stage) == CHOOSE i \in 1..Len(Stages) : Stages[i] = stage

\* A state whose errors hold an entry with 'quota', '429' or 'exceeded'.
QuotaMarked(s) ==
  \E i \in 1..Len(s.errors) :
    s.errors[i].text \cap {"quota", "429", "exceeded"} # {}

\* A state a stage returned as '<stage>_failed'.
StageFailed(s) == s.currentStep.status = "failed"

\* A failed state whose newest error is an authentication/authorization
\* failure (HTTP 401 or 403).
AuthFailed(s) ==
  /\ StageFailed(s)
  /\ Len(s.errors) > 0
  /\ s.errors[Len(s.errors)].kind \in {"auth401", "auth403"}

\* C1: under the sequential policy, once a stage has returned a
\* '<stage>_failed' state no later stage is invoked, and the run's result
\* reports success = false with that state as its data.
C1_SeqFailedStageStopsRun ==
  mode = "standard" =>
    \A k \in 1..Len(returns) :
      StageFailed(returns[k]) =>
        /\ Len(calls) <= k
        /\ result.returned =>
             (~result.success /\ result.hasData /\ result.data = returns[k])

\* C2: under the sequential policy, a run in which some stage (any of the
\* five) returned a state with a quota/429/'exceeded' entry in errors
\* returns a failure result carrying the partial state.
C2_SeqQuotaAlwaysFailure ==
  (mode = "standard" /\ result.returned) =>
    \A k \in 1..Len(returns) :
      QuotaMarked(returns[k]) =>
        (~result.success /\ result.hasData /\ result.data = returns[k])

\* C3: under the sequential policy no stage is invoked on a state whose
\* errors hold a quota/429/'exceeded' entry; once a stage has returned such
\* a state, no further stage is invoked and the state the run returns is
\* exactly that state.
C3_SeqNoStageAfterQuota ==
  mode = "standard" =>
    /\ \A k \in 1..Len(calls) : ~QuotaMarked(calls[k].input)
    /\ \A k \in 1..Len(returns) :
         QuotaMarked(returns[k]) =>
           /\ Len(calls) = k
           /\ pc.at = "done"
           /\ result.returned /\ result.hasData /\ result.data = returns[k]

\* C3 witness: the claims stage returned a quota-marked state after two
\* clean stages, and the run stopped there.
C3_Witness ==
  /\ mode = "standard"
  /\ pc.at = "done"
  /\ Len(returns) = 3
  /\ QuotaMarked(returns[3])
  /\ ~StageFailed(returns[2])

\* C4: under the parallel policy a failed stage is terminal: after a failed
\* search or research neither claims, document nor diagram is invoked, after
\* a failed claims or document the next stage is not invoked, and the run
\* reports failure.
C4_ParFailedStageTerminal ==
  mode = "parallel" =>
    \A k \in 1..Len(returns) :
      StageFailed(returns[k]) =>
        /\ \A j \in 1..Len(calls) :
             ~(/\ StageIdx(calls[j].stage) >= 3
               /\ StageIdx(calls[j].stage) > StageIdx(returns[k].currentStep.stage))
        /\ result.returned => ~result.success

\* C5: in the sequential and the parallel policy a stage that failed with a
\* 401 or 403 error is terminal like a quota error: no stage after it is
\* invoked and the run reports failure.
C5_AuthErrorTerminal ==
  mode \in {"standard", "parallel"} =>
    \A k \in 1..Len(returns) :
      AuthFailed(returns[k]) =>
        /\ \A j \in 1..Len(calls) :
             ~(/\ mode = "parallel" => StageIdx(calls[j].stage) >= 3
               /\ StageIdx(calls[j].stage) > StageIdx(returns[k].currentStep.stage))
        /\ result.returned => ~result.success

---------------------------------------------------------------------------
(* Claims about the ParallelExecutionManager                               *)

InFlight == {c \in Callers : cpc[c] = "running"}

IsPrefix(a, b) == Len(a) <= Len(b) /\ SubSeq(b, 1, Len(a)) = a

\* C6: at every moment, whatever the interleaving of the callers, at most
\* maxConcurrent = 3 stage invocations are in flight.
C6_AtMostMaxConcurrentInFlight ==
  Cardinality(InFlight) <= maxConcurrent

\* C7: executeParallel never rejects while one of the invocations it
\* launched is still waiting for a slot or in flight.
C7_RejectsOnlyWhenAllSettled ==
  allSettled = "rejected" =>
    \A c \in Group : cpc[c] \in {"settled", "done"}

\* C8: suspended callers are admitted in the order in which they were
\* suspended, and each release calls exactly one resolver when the queue is
\* not empty and none when it is empty.
C8_FifoOneWakePerRelease ==
  /\ IsPrefix(admitLog, waitLog)
  /\ \A w \in wakeLog : w.called = (IF w.queued > 0 THEN 1 ELSE 0)

\* C8 witness: two callers were suspended together and both admitted, and
\* releases happened with an empty and with a non-empty queue.
C8_Witness ==
  /\ Len(admitLog) >= 2
  /\ \E w \in wakeLog : w.queued = 2
  /\ \E w \in wakeLog : w.queued = 0

---------------------------------------------------------------------------
(* Claims about executeWithRetry                                           *)

\* An error with no sign of quota, 429, 401 or 403: retryable on any reading.
Retryable(e) ==
  /\ e.status \notin {429, 401, 403}
  /\ e.msg \cap {"quota", "429", "401", "403"} = {}

\* An error classified as quota-exceeded or as an HTTP 401 or 403 failure.
QuotaOrAuth(e) == e.status \in {429, 401, 403} \/ "quota" \in e.msg

\* C9: when every invocation raises a retryable error, executeWithRetry
\* invokes the agent function exactly maxRetries = 3 times and ends by
\* raising the error of the last invocation; it never invokes a fourth time.
C9_RetryableExhaustsAfterMaxRetries ==
  /\ Len(rcalls) <= maxRetries
  /\ (/\ rpc = "done"
      /\ Len(raised) = Len(rcalls)
      /\ \A i \in 1..Len(raised) : Retryable(raised[i]))
     => /\ Len(rcalls) = maxRetries
        /\ rresult.kind = "raised"
        /\ rresult.error = raised[maxRetries]

\* C9 witness: three invocations raised retryable errors, the last one
\* different from the first, and the call has ended.
C9_Witness ==
  /\ rpc = "done"
  /\ Len(raised) = 3
  /\ \A i \in 1..3 : Retryable(raised[i])
  /\ raised[3] # raised[1]

\* C10: an invocation that raises a quota-exceeded, 401 or 403 error is the
\* last one: the error is raised again at once, with no sleep after it, so
\* that such an error on the first attempt means exactly one invocation.
C10_QuotaOrAuthRaisedAtOnce ==
  \A i \in 1..Len(raised) :
    QuotaOrAuth(raised[i]) =>
      /\ Len(rcalls) = i
      /\ Len(sleeps) = i - 1
      /\ rpc = "done"
      /\ rresult.kind = "raised"
      /\ rresult.error = raised[i]

\* C11: the first invocation of the agent function receives the caller's
\* state without the hint, and the second invocation receives the state
\* with useAlternativePrompt = true.
C11_HintBeforeSecondAttempt ==
  /\ Len(rcalls) >= 1 => ~rcalls[1].useAlternativePrompt
  /\ Len(rcalls) >= 2 => rcalls[2].useAlternativePrompt

---------------------------------------------------------------------------
(* Claims about the retry-hardened policy and the order of the stages      *)

\* The invocations of a stage in the run so far.
Invocations(stage) == {j \in 1..Len(calls) : calls[j].stage = stage}

\* A failed state whose newest error is a transient provider failure: no
\* status, no marker.
TransientFailed(s) ==
  /\ StageFailed(s)
  /\ Len(s.errors) > 0
  /\ s.errors[Len(s.errors)].kind = "other"
  /\ s.errors[Len(s.errors)].text = {}

\* The stages that have returned in the run so far.
Returned == {returns[k].currentStep.stage : k \in 1..Len(returns)}

\* C12: under the retry-hardened policy, once a stage has ended in an
\* error no later stage is invoked and the run reports a failure; it never
\* reports success with the partial state.
C12_RobustStageFailureAbortsRun ==
  mode = "robust" =>
    \A k \in 1..Len(returns) :
      StageFailed(returns[k]) =>
        /\ Len(calls) <= k
        /\ result.returned => ~result.success

\* C13: under the retry-hardened policy, a stage whose provider call failed
\* with a transient error is invoked again before its failure is handed on.
C13_RobustRetriesTransient ==
  mode = "robust" =>
    \A k \in 1..Len(returns) :
      TransientFailed(returns[k]) =>
        Cardinality(Invocations(returns[k].currentStep.stage)) >= 2

\* C14: under the sequential and the retry-hardened policy the stages are
\* invoked in the order search, research, claims, document, diagram; a
\* stage is invoked only after the one before it has returned, and on
\* exactly the state that one returned.
C14_StagesInOrderStateHandedOn ==
  mode \in {"standard", "robust"} =>
    /\ Len(calls) <= Len(Stages)
    /\ Len(returns) <= Len(calls)
    /\ Len(calls) <= Len(returns) + 1
    /\ \A j \in 1..Len(calls) :
         /\ calls[j].stage = Stages[j]
         /\ j > 1 => calls[j].input = returns[j - 1]

\* C14 witness: a retry-hardened run went through all five stages, the
\* second of which returned a failed state that the third received.
C14_Witness ==
  /\ mode = "robust"
  /\ pc.at = "done"
  /\ Len(calls) = 5
  /\ StageFailed(returns[2])
  /\ calls[3].input = returns[2]

\* C15: under the parallel policy the claims stage is invoked only when
\* search and research have both returned, in whichever order.
C15_ClaimsAfterSearchAndResearch ==
  mode = "parallel" =>
    \A j \in 1..Len(calls) :
      calls[j].stage = "claims" =>
        /\ pending = {}
        /\ {"search", "research"} \subseteq Returned

\* C15 witness: research returned before search, and claims was invoked.
C15_Witness ==
  /\ mode = "parallel"
  /\ Len(returns) >= 2
  /\ returns[1].currentStep.stage = "research"
  /\ Invocations("claims") # {}

---------------------------------------------------------------------------
(* Claims about the workflow entry of the store and about the result       *)

\* When the run was called, the workflow entry an earlier run had stored
\* for the same abstract was not older than the ttl.
FreshEntry ==
  /\ before.stored.valid
  /\ before.stored.abstract = before.abstract
  /\ now - before.stored.at <= ttl

\* The run was answered from the workflow entry.
WorkflowHit == mode = "cached" /\ result.returned /\ calls = <<>>

\* C16: in mode 'cached', a run called while the entry stored by an
\* earlier run on the same abstract is fresh invokes no stage and returns
\* the final state of that run, which had invoked each stage once.
C16_SecondCachedRunIsPureHit ==
  (mode = "cached" /\ FreshEntry) =>
    /\ calls = <<>>
    /\ returns = <<>>
    /\ result.returned /\ result.success
    /\ result.hasData /\ result.data = before.stored.state
    /\ before.stored.stages = Stages

\* C16 witness: the second run was called exactly one ttl after the first
\* had stored its final state, and was answered from the store.
C16_Witness ==
  /\ mode = "cached"
  /\ FreshEntry
  /\ now = before.stored.at + ttl
  /\ result.returned

\* C17: after a hit of the workflow entry the metrics are what they were
\* before the call, as the populating run left them.
C17_HitLeavesMetricsUnchanged ==
  WorkflowHit => metrics = before.metrics

\* C18 as stated: under every policy a fresh workflow entry is returned
\* without invoking a stage, and a run that invoked stages and ended in
\* success has stored its final state under the workflow key.
C18_EveryPolicyUsesWorkflowEntry ==
  /\ FreshEntry => calls = <<>>
  /\ (result.returned /\ result.success /\ calls # <<>>) =>
       /\ stored.valid
       /\ stored.abstract = before.abstract
       /\ stored.state = result.data

\* C18: only mode 'cached', which runs the sequential flow, uses the
\* workflow entry: it returns a fresh entry without invoking a stage and
\* stores the final state of a run that reached its end; the modes
\* 'standard', 'parallel' and 'robust' neither read nor write the entry:
\* they invoke the stages even when the entry is fresh.
C18_OnlyCachedModeUsesWorkflowEntry ==
  /\ mode = "cached" =>
       /\ FreshEntry => (calls = <<>> /\ result.data = before.stored.state)
       /\ (result.returned /\ result.success /\ calls # <<>>) =>
            /\ stored = [valid |-> TRUE, abstract |-> before.abstract,
                         state |-> result.data, at |-> now, stages |-> Stages]
            /\ CacheGet(cache, generateKey("workflow", before.abstract), now)
                 = [hit |-> TRUE, data |-> result.data, cache |-> cache]
  /\ mode \in {"standard", "parallel", "robust"} =>
       /\ stored = before.stored
       /\ pc.at = "done" => calls # <<>>

\* C18 witness: a parallel run called while the workflow entry for its
\* abstract was fresh has invoked all five stages.
C18_Witness ==
  /\ mode = "parallel"
  /\ FreshEntry
  /\ pc.at = "done"
  /\ Len(calls) = 5

\* C19: every result executePatentWorkflow returns has a metrics field
\* holding the current metrics.
C19_EveryResultHasMetrics ==
  result.returned => (result.hasMetrics /\ result.metrics = getMetrics(metrics))

\* C20 as stated: a run called with a mode name that is no case of the
\* switch invokes no stage and returns no result.
C20_UnknownModeRaises ==
  mode = UnknownMode => (calls = <<>> /\ ~result.returned)

\* C20: a mode name that is no case of the switch raises nothing: the run
\* takes the sequential flow as 'standard' does, invoking the stages from
\* search on, and ends by returning a result.
C20_UnknownModeRunsSequential ==
  mode = UnknownMode =>
    /\ pc.at = "done" => (result.returned /\ calls # <<>>)
    /\ \A j \in 1..Len(calls) : calls[j].stage = Stages[j]
    /\ (result.returned /\ result.success) =>
         /\ Len(calls) = Len(Stages)
         /\ result.message =
              "Patent creation workflow completed successfully using direct agent execution"
    /\ (result.returned /\ ~result.success) => hasQuotaError(result.data)

\* C20 witness: a run with an unknown mode name went through the five
\* stages and returned success.
C20_Witness ==
  /\ mode = UnknownMode
  /\ result.returned /\ result.success
  /\ Len(calls) = 5

---------------------------------------------------------------------------
(* Claims about the running state                                          *)

\* The invocation of the stage that returned returns[k].
CallOf(k) ==
  CHOOSE j \in 1..Len(calls) : calls[j].stage = returns[k].currentStep.stage

\* The invocations made after returns[k] was returned: under the parallel
\* policy search and research are both invoked before either returns.
InvokedAfter(k) ==
  {j \in 1..Len(calls) : j > k /\ (mode = "parallel" => j >= 3)}

\* C21: within a run the errors of the running state only grow: the errors
\* of every state a stage returned are a prefix of the errors of every
\* state handed to a stage afterwards (the merged state of the parallel
\* policy included) and of the state the run reports.
C21_ErrorsAppendOnly ==
  \A k \in 1..Len(returns) :
    /\ \A j \in InvokedAfter(k) :
         IsPrefix(returns[k].errors, calls[j].input.errors)
    /\ (result.returned /\ result.hasData) =>
         IsPrefix(returns[k].errors, result.data.errors)

\* C28: under the parallel policy research is invoked on the initial
\* state: the priorArt it reads is empty whether or not search has
\* returned, and the state it returns holds no prior art either.
C28_ParResearchSeesNoPriorArt ==
  mode = "parallel" =>
    /\ \A j \in 1..Len(calls) :
         calls[j].stage = "research" =>
           /\ calls[j].input = InitialState(before.abstract)
           /\ calls[j].input.priorArt = ""
    /\ \A k \in 1..Len(returns) :
         returns[k].currentStep.stage = "research" => returns[k].priorArt = ""

\* C28 witness: search returned its prior art first, and research then
\* returned a state without it.
C28_Witness ==
  /\ mode = "parallel"
  /\ Len(returns) >= 2
  /\ returns[1].currentStep = Step("search", "completed")
  /\ returns[1].priorArt # ""
  /\ returns[2].currentStep.stage = "research"
  /\ returns[2].priorArt = ""

\* Two states that differ at most in errors and currentStep.
SameButErrorsAndStep(a, b) ==
  a = [b EXCEPT !.errors = a.errors, !.currentStep = a.currentStep]

\* C29: every state a stage returns has the stage's '<name>_completed' or
\* '<name>_failed' as currentStep; a failed one is the input state with
\* exactly one message appended to errors and nothing else changed, and a
\* completed one has the input's errors.
C29_StageReturnsCompletedOrFailed ==
  \A k \in 1..Len(returns) :
    LET in  == calls[CallOf(k)].input
        out == returns[k]
    IN  /\ out.currentStep.status \in {"completed", "failed"}
        /\ out.currentStep.status = "failed" =>
             /\ Len(out.errors) = Len(in.errors) + 1
             /\ IsPrefix(in.errors, out.errors)
             /\ out.errors[Len(out.errors)].agent = AgentName(out.currentStep.stage)
             /\ SameButErrorsAndStep(out, in)
        /\ out.currentStep.status = "completed" => out.errors = in.errors

\* C29 witness: the claims stage failed on a state that already held an
\* error and the prior art of the search stage.
C29_Witness ==
  /\ Len(returns) >= 3
  /\ returns[3].currentStep = Step("claims", "failed")
  /\ Len(returns[3].errors) = 2
  /\ returns[3].priorArt # ""

---------------------------------------------------------------------------
(* Claims about the backoff and about executeWithFallback                  *)

C26_FallbackOnlyAfterPrimaryRaised ==
  /\ Len(rcalls) <= 2
  /\ Len(raised) <= Len(rcalls)
  /\ Len(rcalls) = 2 => (Len(raised) >= 1 /\ rcalls[2] = rcalls[1])
  /\ rpc = "done" =>
       CASE Len(raised) = 0 ->
              /\ Len(rcalls) = 1
              /\ rresult.kind = "returned"
              /\ rresult.state.currentStep.stage = "primary"
         [] Len(raised) = 1 ->
              /\ rresult.kind = "returned"
              /\ rresult.state.currentStep.stage = "fallback"
         [] OTHER ->
              /\ rresult.kind = "raised"
              /\ rresult.error = raised[2]

\* C26 witness: primary and fallback raised different errors and the call
\* has ended.
C26_Witness ==
  /\ rpc = "done"
  /\ Len(raised) = 2
  /\ raised[1] # raised[2]

---------------------------------------------------------------------------
(* Claims about the PerformanceMonitor                                     *)

\* C30: after every endTimer each stage entry's averageTime is its
\* totalTime over its totalExecutions, and averageResponseTime is
\* totalExecutionTime over successfulExecutions + failedExecutions; no
\* division was made with a zero divisor.
C30_AveragesAreTotalsOverCounts ==
  /\ \A a \in StageSet :
       metrics.has[a] =>
         LET am == metrics.agentExecutions[a] IN
           /\ am.totalExecutions >= 1
           /\ am.averageTime = Quot(am.totalTime, am.totalExecutions)
  /\ metrics.averageResponseTime.den # 0
  /\ metrics.successfulExecutions + metrics.failedExecutions > 0 =>
       metrics.averageResponseTime =
         Quot(metrics.totalExecutionTime,
              metrics.successfulExecutions + metrics.failedExecutions)

\* C30 witness: two timers of one agent and one of the other were ended,
\* one of them as a failure, with two ticks of execution time in all.
C30_Witness ==
  /\ metrics.has["search"] /\ metrics.has["research"]
  /\ metrics.agentExecutions["search"].totalExecutions = 2
  /\ metrics.failedExecutions >= 1
  /\ metrics.totalExecutionTime = 2 * TickMs


\* The key of the last get is the key of the set that came just before it.
GetAfterSet ==
  /\ storeLog.get.valid
  /\ storeLog.get.set.valid
  /\ storeLog.get.set.scope = storeLog.get.scope
  /\ storeLog.get.set.n = storeLog.get.n

\* C22: set(K, V) followed by get(K) with nothing in between returns V when
\* at most ttl has passed since the set, and absent once more than ttl has
\* passed.
C22_GetAfterSetReturnsValueUntilTtl ==
  GetAfterSet =>
    IF storeLog.get.at - storeLog.get.set.at > ttl
    THEN ~storeLog.get.hit
    ELSE /\ storeLog.get.hit
         /\ storeLog.get.data =
              Value(storeLog.get.scope, storeLog.get.n, storeLog.get.set.ver)

\* A get more than ttl after the set of its key found nothing, in a store
\* that was at its capacity.
C22_Witness ==
  /\ GetAfterSet
  /\ storeLog.get.at - storeLog.get.set.at > ttl
  /\ ~storeLog.get.hit
  /\ storeLog.fresh >= maxSize

\* C23: capacity + 1 inserts of distinct keys into the empty store leave
\* exactly capacity entries: the first key is absent, the others present.
C23_OverfillEvictsFirstInserted ==
  (storeLog.ops = 0 /\ storeLog.fresh = maxSize + 1) =>
    /\ Len(cache) = maxSize
    /\ CacheIndex(cache, StoreKey("search", 1)) = 0
    /\ \A n \in 2..(maxSize + 1) : cache[n - 1].key = StoreKey("search", n)

C23_Witness ==
  /\ storeLog.ops = 0
  /\ storeLog.fresh = maxSize + 1
  /\ storeLog.insert.sizeBefore = maxSize

\* C24: the keys of the scopes 'search' and 'workflow' never collide, so a
\* get under one scope never returns what was set under the other.
C24_ScopesNeverCollide ==
  /\ \A x, y \in ProbeInputs \cup {storeLog.fresh} :
       StoreKey("search", x) # StoreKey("workflow", y)
  /\ storeLog.get.hit =>
       /\ storeLog.get.data.scope = storeLog.get.scope
       /\ storeLog.get.data.n = storeLog.get.n

\* A get under 'workflow' hit while the same input was stored under 'search'.
C24_Witness ==
  /\ storeLog.get.hit
  /\ storeLog.get.scope = "workflow"
  /\ CacheIndex(cache, StoreKey("search", storeLog.get.n)) # 0
  /\ CacheIndex(cache, StoreKey("workflow", storeLog.get.n)) # 0

\* The last operation inserted a new key into a store at its capacity, and
\* the operation before it was a get that hit the oldest entry.
InsertAfterGetOfOldest ==
  /\ storeLog.insert.valid
  /\ storeLog.insert.sizeBefore >= maxSize
  /\ storeLog.insert.get.hit
  /\ storeLog.insert.get.pos = 1

---------------------------------------------------------------------------
(* Claims about what the workflow entry holds and what a run reports       *)

\* A state in which all five stages completed.
AllCompleted(s) ==
  /\ s.currentStep = Step("diagram", "completed")
  /\ s.errors = <<>>

\* C32: every state put under a workflow key is the final state of a run
\* in which all five stages completed, so no later hit serves a state with
\* a failed stage.
C32_StoredStateIsComplete ==
  /\ stored.valid => AllCompleted(stored.state)
  /\ WorkflowHit => AllCompleted(result.data)

\* C33: under the retry-hardened policy a result with success = true has a
\* state in which all five stages completed, and no stage that returned
\* '<stage>_failed' was followed by the invocation of a later stage.
C33_RobustSuccessMeansAllCompleted ==
  (mode = "robust" /\ result.returned /\ result.success) =>
    /\ AllCompleted(result.data)
    /\ \A k \in 1..Len(returns) : StageFailed(returns[k]) => Len(calls) <= k

---------------------------------------------------------------------------
(* Claims about the limiter's counter and about who is admitted first      *)

\* The callers of their own, numbered in the order of their calls.
OwnCallers == Callers \ Group

\* Caller c has started its stage function.
Started(c) == cpc[c] \in {"running", "settled", "done"}

\* C35: while a caller is waiting in the queue, or was woken and has not
\* resumed yet, no caller that arrived after it has started its stage
\* function.
C35_NoBarging ==
  \A d, c \in OwnCallers :
    (d < c /\ cpc[d] \in {"waiting", "woken"}) => ~Started(c)

\* The invocations between their admission (running++) and their release
\* (running-- in the finally block).
Admitted == {c \in Callers : cpc[c] \in {"running", "settled"}}

\* C40: running equals the number of invocations between admission and
\* release, whether the stage function returned or raised, and is never
\* negative.
C40_RunningCountsAdmitted ==
  /\ running = Cardinality(Admitted)
  /\ running >= 0

\* C40 witness: one invocation that returned and one that raised have been
\* released, a caller was admitted after waiting, and nothing is admitted.
C40_Witness ==
  /\ \E c \in Callers : cpc[c] = "done" /\ outcome[c] = "raised"
  /\ \E c \in Callers : cpc[c] = "done" /\ outcome[c] = "returned"
  /\ admitLog # <<>>
  /\ \A c \in Callers : cpc[c] = "done"
  /\ running = 0

---------------------------------------------------------------------------
(* Claims about the sums the PerformanceMonitor keeps                      *)

RECURSIVE SumOver(_, _)
SumOver(f(_), S) ==
  IF S = {} THEN 0
  ELSE LET a == CHOOSE x \in S : TRUE IN f(a) + SumOver(f, S \ {a})

\* C37: after any interleaving of startTimer, endTimer and reset, the
\* global counts are the sums of the per-stage counts, each stage's
\* totalExecutions is its successCount + failureCount, and
\* totalExecutionTime is the sum of the per-stage totalTime.
C37_GlobalCountsAreStageSums ==
  LET Stored == {a \in StageSet : metrics.has[a]}
      Execs(a) == metrics.agentExecutions[a].totalExecutions
      Time(a) == metrics.agentExecutions[a].totalTime
  IN  /\ metrics.successfulExecutions + metrics.failedExecutions =
           SumOver(Execs, Stored)
      /\ \A a \in Stored :
           Execs(a) = metrics.agentExecutions[a].successCount
                        + metrics.agentExecutions[a].failureCount
      /\ metrics.totalExecutionTime = SumOver(Time, Stored)

\* C37 witness: a timer of one agent was ended as a
\* failure with a time above 0, next to a success of the other agent.
C37_Witness ==
  /\ metrics.has["search"] /\ metrics.has["research"]
  /\ metrics.failedExecutions = 1
  /\ metrics.successfulExecutions = 1
  /\ metrics.totalExecutionTime = 2 * TickMs
  /\ now = 2 * TickMs

---------------------------------------------------------------------------
(* Claims about the size of the store                                      *)

\* The last operation was a set of a key that was already stored.
Overwrote == storeLog.set.valid /\ storeLog.set.present

\* C38: a set of a key that is already stored removes no other key: the
\* store holds as many entries as before, the oldest one among them.
C38_OverwriteKeepsOtherKeys ==
  Overwrote =>
    /\ Len(cache) = storeLog.set.sizeBefore
    /\ CacheIndex(cache, storeLog.set.first) # 0

\* C39: the store never holds more than maxSize entries, expired ones
\* that were not read yet included.
C39_AtMostMaxSizeEntries == Len(cache) <= maxSize

\* C39 witness: a new key was inserted into a store at its capacity whose
\* oldest entry is expired and was never read.
C39_Witness ==
  /\ storeLog.insert.valid
  /\ storeLog.insert.sizeBefore = maxSize
  /\ Len(cache) = maxSize
  /\ now - cache[1].timestamp > ttl

---------------------------------------------------------------------------
(* Claims about the keys of different abstracts                            *)

\* C31: a hit of the workflow entry for abstract A returns a state that
\* was computed from A, and the key of A differs from the key of any
\* other abstract a run has stored a state for.
C31_HitReturnsStateOfSameAbstract ==
  /\ WorkflowHit => result.data.abstract = before.abstract
  /\ (mode = "cached" /\ before.stored.valid
        /\ before.stored.abstract # before.abstract) =>
       generateKey("workflow", before.stored.abstract)
         # generateKey("workflow", before.abstract)

---------------------------------------------------------------------------
(* Claims about calls that overlap                                         *)

\* C36: the metrics in the result of each of two overlapping calls count
\* every stage that call invoked.
C36_OverlappingRunsKeepTheirMetrics ==
  \A r \in OverlapRuns :
    (runs[r].result.returned /\ runs[r].result.hasMetrics) =>
      runs[r].result.metrics.successfulExecutions
        + runs[r].result.metrics.failedExecutions >= runs[r].invoked

---------------------------------------------------------------------------
(* Claims about the progress of suspended callers                          *)

\* No caller is inside executeWithConcurrencyLimit.
Quiet == \A c \in Callers : cpc[c] \in {"idle", "done"}

\* C34: every caller suspended in executeWithConcurrencyLimit is admitted
\* in the end (it does not stay in the queue, or woken, for ever), and when
\* no caller is inside the function running is 0 and the queue is empty.
C34_SuspendedCallersAreAdmitted ==
  /\ \A c \in Callers : []<>(cpc[c] \notin {"waiting", "woken"})
  /\ [](Quiet => (running = 0 /\ queue = <<>>))

\* C34 witness: every caller has come and gone, two of them through the
\* queue.
C34_Witness ==
  /\ \A c \in Callers : cpc[c] = "done"
  /\ Len(admitLog) >= 2
  /\ running = 0
  /\ queue = <<>>

=============================================================================
